---- MODULE Spec2Model ----
(***************************************************************************)
(* Model of the two transcript converters of aws-audio-transcribe:         *)
(*   convert-aws-transcript-by-jobname.py  (item-level payload, variable   *)
(*                                          job)                           *)
(*   convert-aws-transcript.py             (pre-joined audio_segments,     *)
(*                                          variable file)                 *)
(* Python strings are sequences of one-character strings, so that join,    *)
(* the f-string and strip() are computed character by character. A Python  *)
(* value that may be None is a sequence of length 0 (None) or 1.           *)
(***************************************************************************)
EXTENDS Integers, Sequences, FiniteSets, TLC

VARIABLES job, file

vars == <<job, file>>

\* ------------------------------------------------------------------ bounds
MaxSegs == 3
MaxItems == 2
MaxCount == 2

\* ----------------------------------------------------------------- strings
None == <<>>
Some(v) == <<v>>

hello == <<"h", "e", "l", "l", "o">>
hallo == <<"h", "a", "l", "l", "o">>
hi == <<"h", "i">>
bye == <<"b", "y", "e">>
there == <<"t", "h", "e", "r", "e">>
comma == <<",">>
Alice == <<"A", "l", "i", "c", "e">>
Bob == <<"B", "o", "b">>
EmptyStr == <<>>

Whitespace == {" ", "\n", "\t"}

RECURSIVE lstrip(_)
lstrip(s) == IF s # <<>> /\ Head(s) \in Whitespace THEN lstrip(Tail(s)) ELSE s

RECURSIVE rstrip(_)
rstrip(s) ==
    IF s # <<>> /\ s[Len(s)] \in Whitespace
    THEN rstrip(SubSeq(s, 1, Len(s) - 1))
    ELSE s

\* str.strip()
strip(s) == rstrip(lstrip(s))

\* sep.join(parts)
RECURSIVE join(_, _)
join(sep, parts) ==
    IF parts = <<>> THEN <<>>
    ELSE IF Len(parts) = 1 THEN parts[1]
    ELSE parts[1] \o sep \o join(sep, Tail(parts))

\* f"spk_{i}"
DigitChar(i) == CASE i = 0 -> "0" [] i = 1 -> "1" [] i = 2 -> "2" [] i = 3 -> "3"
                  [] i = 4 -> "4" [] i = 5 -> "5" [] i = 6 -> "6" [] i = 7 -> "7"
                  [] i = 8 -> "8" [] i = 9 -> "9"
spk(i) == <<"s", "p", "k", "_", DigitChar(i)>>

DigitVal(c) == CASE c = "0" -> 0 [] c = "1" -> 1 [] c = "2" -> 2 [] c = "3" -> 3
                 [] c = "4" -> 4 [] c = "5" -> 5 [] c = "6" -> 6 [] c = "7" -> 7
                 [] c = "8" -> 8 [] c = "9" -> 9

\* float(s) of a timestamp string "d.d", in tenths of a second
float(s) == DigitVal(s[1]) * 10 + DigitVal(s[3])

t00 == <<"0", ".", "0">>
t05 == <<"0", ".", "5">>
t10 == <<"1", ".", "0">>
t15 == <<"1", ".", "5">>
t20 == <<"2", ".", "0">>

\* dict.get(key, default)
get(d, key, default) == IF key \in DOMAIN d THEN d[key] ELSE default

\* part with a blank line before the turn
partBlankLine(speaker_name, current_text) ==
    <<"\n", "\n">> \o speaker_name \o <<":", " ">> \o join(<<" ">>, current_text)

\* f"\n{speaker_name}: {' '.join(current_text)}"
part(speaker_name, current_text) ==
    <<"\n">> \o speaker_name \o <<":", " ">> \o join(<<" ">>, current_text)

\* ''.join(transcript_parts)
RECURSIVE concat(_)
concat(parts) == IF parts = <<>> THEN <<>> ELSE Head(parts) \o concat(Tail(parts))

\* switching without the comparison of the speakers
switchingAlways(current_speaker, speaker) == current_speaker # None

\* current_speaker is not None and current_speaker != speaker
switching(current_speaker, speaker) ==
    current_speaker # None /\ current_speaker[1] # speaker

\* ------------------------------------------- by-jobname: the payload
\* A JSON object with optional keys is a record with the set of keys present.
Item(keys, st, et, alts) ==
    [keys |-> keys, start_time |-> st, end_time |-> et,
     alternatives |-> [k \in 1..Len(alts) |-> [content |-> alts[k]]]]

TimedKeys == {"start_time", "end_time", "alternatives"}

itHello == Item(TimedKeys, t00, t10, <<hello, hallo>>)
itHi == Item(TimedKeys, t10, t20, <<hi>>)
itBye == Item(TimedKeys, t05, t15, <<bye>>)
\* punctuation carries no times
itComma == Item({"alternatives"}, EmptyStr, EmptyStr, <<comma>>)
itNoEnd == Item({"start_time", "alternatives"}, t00, EmptyStr, <<there>>)

ItemPool == {itHello, itHi, itBye, itComma, itNoEnd}
ExampleItems == <<itHello, itHi, itBye>>

Segment(keys, label, st, et) ==
    [keys |-> keys, speaker_label |-> label, start_time |-> st, end_time |-> et]

SegKeys == {"speaker_label", "start_time", "end_time", "items"}
Labels == {spk(0), spk(1)}
Times == {t00, t05, t10, t15, t20}
Windows == {w \in Times \X Times : float(w[1]) < float(w[2])}

\* well-formed segments over three windows (all of ExampleItems, its first item,
\* none of them), a segment without the items key
\* and a segment without its start time
WideSegments ==
    {Segment(SegKeys, l, w[1], w[2]) :
        l \in Labels, w \in {<<t00, t20>>, <<t00, t10>>, <<t15, t20>>}}
    \cup {Segment(SegKeys \ {"items"}, l, t00, t20) : l \in Labels}
    \cup {Segment(SegKeys \ {"start_time"}, l, EmptyStr, t20) : l \in Labels}

SeqsUpTo(S, n) == UNION {[1..k -> S] : k \in 0..n}

TranscriptData(count, segments, items) ==
    [speakers_count |-> count, segments |-> segments, items |-> items]

AliceBob == [l \in Labels |-> IF l = spk(0) THEN Alice ELSE Bob]
EmptyEntry == [l \in {spk(0)} |-> EmptyStr]
NoNames == [l \in {} |-> EmptyStr]
GivenNames == {NoNames, AliceBob, EmptyEntry}

\* what input() returns at the name prompt
RawInputs == {<<" ">> \o Alice \o <<" ">>, Bob, <<" ">>}

\* ------------------------------------------- by-jobname: process_transcript
JobStart(td, names) ==
    [pc |-> "start", transcript_data |-> td, speaker_names |-> names,
     num_speakers |-> None, transcript_parts |-> <<>>,
     current_speaker |-> None, current_text |-> <<>>,
     segment |-> 0, final_transcript |-> None, exc |-> None,
     \* history: the turns flushed, the fragments appended, the matcher's results
     turns |-> <<>>, appended |-> <<>>, matched |-> <<>>]

JobIdle == [JobStart(TranscriptData(None, <<>>, <<>>), None) EXCEPT !.pc = "idle"]

\* int(x): speakers_count is a JSON integer, which int() returns unchanged
int(x) == x

SpeakerLabels(segments) == {segments[k].speaker_label : k \in 1..Len(segments)}

\* try: int(...['speakers_count'])  except KeyError: len(set of speaker labels)
JobNumSpeakers(td) ==
    IF td.speakers_count # None
    THEN int(td.speakers_count[1])
    ELSE Cardinality(SpeakerLabels(td.segments))

J_ResolveCount ==
    /\ job.pc = "start"
    /\ job' = [job EXCEPT
            !.num_speakers = Some(JobNumSpeakers(job.transcript_data)),
            !.pc = IF job.speaker_names = None THEN "prompt" ELSE "segments"]
    /\ UNCHANGED file

\* for i in range(num_speakers): speaker_names[f"spk_{i}"] = name, where name is
\* the first stripped input that is not empty
Prompted(n, raw) ==
    [l \in {spk(i) : i \in 0..(n - 1)} |->
        strip(raw[CHOOSE i \in 0..(n - 1) : spk(i) = l])]

J_Prompt ==
    /\ job.pc = "prompt"
    /\ \E raw \in [0..(job.num_speakers[1] - 1) -> RawInputs] :
        /\ \A i \in DOMAIN raw : strip(raw[i]) # EmptyStr
        /\ job' = [job EXCEPT
                !.speaker_names = Some(Prompted(job.num_speakers[1], raw)),
                !.pc = "segments"]
    /\ UNCHANGED file

\* within with strict comparisons
withinStrict(item_start, item_end, start_time, end_time) ==
    item_start > start_time /\ item_end < end_time

\* item_start >= start_time and item_end <= end_time
within(item_start, item_end, start_time, end_time) ==
    item_start >= start_time /\ item_end <= end_time

\* content of the last candidate
contentLast(item) == item.alternatives[Len(item.alternatives)].content

\* item['alternatives'][0]['content']
content(item) == item.alternatives[1].content

\* the inner loop over transcript_data['results']['items']
RECURSIVE SegmentItems(_, _, _)
SegmentItems(items, start_time, end_time) ==
    IF items = <<>> THEN <<>>
    ELSE LET item == Head(items)
             rest == SegmentItems(Tail(items), start_time, end_time)
         IN  IF "start_time" \notin item.keys \/ "end_time" \notin item.keys
             THEN rest
             ELSE IF within(float(item.start_time), float(item.end_time),
                            start_time, end_time)
                  THEN <<content(item)>> \o rest
                  ELSE rest

JobSegment == job.transcript_data.segments[job.segment + 1]

JobInLoop ==
    /\ job.pc = "segments"
    /\ job.segment < Len(job.transcript_data.segments)

\* if 'items' not in segment: continue
J_Continue ==
    /\ JobInLoop
    /\ "items" \notin JobSegment.keys
    /\ job' = [job EXCEPT !.segment = @ + 1]
    /\ UNCHANGED file

\* float(segment['start_time']) or float(segment['end_time']) of a missing key
J_KeyError ==
    /\ JobInLoop
    /\ "items" \in JobSegment.keys
    /\ ~({"start_time", "end_time"} \subseteq JobSegment.keys)
    /\ job' = [job EXCEPT !.segment = @ + 1, !.pc = "raised",
                          !.exc = Some("KeyError")]
    /\ UNCHANGED file

Fragments(speaker, text) == [k \in 1..Len(text) |-> [speaker |-> speaker, text |-> text[k]]]

\* one pass of the loop body over a segment with its items and times
J_Segment ==
    /\ JobInLoop
    /\ "items" \in JobSegment.keys
    /\ {"start_time", "end_time"} \subseteq JobSegment.keys
    /\ LET speaker == JobSegment.speaker_label
           start_time == float(JobSegment.start_time)
           end_time == float(JobSegment.end_time)
           segment_items ==
               SegmentItems(job.transcript_data.items, start_time, end_time)
           flush == switching(job.current_speaker, speaker)
           speaker_name ==
               get(job.speaker_names[1], job.current_speaker[1], job.current_speaker[1])
       IN  job' = [job EXCEPT
               !.segment = @ + 1,
               !.transcript_parts =
                   IF flush THEN Append(@, part(speaker_name, job.current_text)) ELSE @,
               !.turns =
                   IF flush
                   THEN Append(@, [speaker |-> job.current_speaker[1],
                                   speaker_name |-> speaker_name,
                                   words |-> job.current_text])
                   ELSE @,
               !.current_speaker = Some(speaker),
               !.current_text = (IF flush THEN <<>> ELSE @) \o segment_items,
               !.appended = @ \o Fragments(speaker, segment_items),
               !.matched = Append(@, [segment |-> job.segment + 1,
                                      segment_items |-> segment_items])]
    /\ UNCHANGED file

\* after the loop: the last flush, ''.join(...).strip() and the return
J_Return ==
    /\ job.pc = "segments"
    /\ job.segment = Len(job.transcript_data.segments)
    /\ LET last == job.current_text # <<>>
           speaker_name ==
               get(job.speaker_names[1], job.current_speaker[1], job.current_speaker[1])
           parts == IF last
                    THEN Append(job.transcript_parts, part(speaker_name, job.current_text))
                    ELSE job.transcript_parts
       IN  job' = [job EXCEPT
               !.transcript_parts = parts,
               !.turns =
                   IF last
                   THEN Append(@, [speaker |-> job.current_speaker[1],
                                   speaker_name |-> speaker_name,
                                   words |-> job.current_text])
                   ELSE @,
               !.final_transcript = Some(strip(concat(parts))),
               !.pc = "returned"]
    /\ UNCHANGED file

JobNext == J_ResolveCount \/ J_Prompt \/ J_Continue \/ J_KeyError \/ J_Segment \/ J_Return

\* ------------------------------------------- from-file: the payload
AudioSegment(label, transcript) == [speaker_label |-> label, transcript |-> transcript]

Transcripts == {hello, hi, bye, there, EmptyStr}
WideAudioSegments == {AudioSegment(l, t) : l \in Labels, t \in Transcripts}

Data(speakers, audio_segments) ==
    [speakers |-> speakers, audio_segments |-> audio_segments]

\* ------------------------------------------- from-file: process_transcript
FileStart(data, names) ==
    [pc |-> "start", data |-> data, speaker_names |-> names,
     num_speakers |-> None, transcript_parts |-> <<>>,
     current_speaker |-> None, current_text |-> <<>>,
     segment |-> 0, final_transcript |-> None, exc |-> None,
     \* history: the turns flushed and the fragments appended
     turns |-> <<>>, appended |-> <<>>]

FileIdle == [FileStart(Data(None, <<>>), None) EXCEPT !.pc = "idle"]

\* if speaker_names is None: is false
F_NamesGiven ==
    /\ file.pc = "start"
    /\ file.speaker_names # None
    /\ file' = [file EXCEPT !.pc = "segments"]
    /\ UNCHANGED job

\* data['results']['speaker_labels']['speakers'] of a payload without the key
F_KeyError ==
    /\ file.pc = "start"
    /\ file.speaker_names = None
    /\ file.data.speakers = None
    /\ file' = [file EXCEPT !.speaker_names = Some(NoNames), !.pc = "raised",
                            !.exc = Some("KeyError")]
    /\ UNCHANGED job

F_Prompt ==
    /\ file.pc = "start"
    /\ file.speaker_names = None
    /\ file.data.speakers # None
    /\ LET num_speakers == file.data.speakers[1]
       IN  \E raw \in [0..(num_speakers - 1) -> RawInputs] :
            /\ \A i \in DOMAIN raw : strip(raw[i]) # EmptyStr
            /\ file' = [file EXCEPT
                    !.num_speakers = Some(num_speakers),
                    !.speaker_names = Some(Prompted(num_speakers, raw)),
                    !.pc = "segments"]
    /\ UNCHANGED job

FileSegment == file.data.audio_segments[file.segment + 1]

\* one pass of the loop body over an audio segment
F_Segment ==
    /\ file.pc = "segments"
    /\ file.segment < Len(file.data.audio_segments)
    /\ LET speaker == FileSegment.speaker_label
           flush == switching(file.current_speaker, speaker)
           speaker_name ==
               get(file.speaker_names[1], file.current_speaker[1], file.current_speaker[1])
       IN  file' = [file EXCEPT
               !.segment = @ + 1,
               !.transcript_parts =
                   IF flush THEN Append(@, part(speaker_name, file.current_text)) ELSE @,
               !.turns =
                   IF flush
                   THEN Append(@, [speaker |-> file.current_speaker[1],
                                   speaker_name |-> speaker_name,
                                   words |-> file.current_text])
                   ELSE @,
               !.current_speaker = Some(speaker),
               !.current_text = Append(IF flush THEN <<>> ELSE @, FileSegment.transcript),
               !.appended = Append(@, [speaker |-> speaker,
                                       text |-> FileSegment.transcript])]
    /\ UNCHANGED job

\* after the loop: the last flush, ''.join(...).strip() and the return
F_Return ==
    /\ file.pc = "segments"
    /\ file.segment = Len(file.data.audio_segments)
    /\ LET last == file.current_text # <<>>
           speaker_name ==
               get(file.speaker_names[1], file.current_speaker[1], file.current_speaker[1])
           parts == IF last
                    THEN Append(file.transcript_parts, part(speaker_name, file.current_text))
                    ELSE file.transcript_parts
       IN  file' = [file EXCEPT
               !.transcript_parts = parts,
               !.turns =
                   IF last
                   THEN Append(@, [speaker |-> file.current_speaker[1],
                                   speaker_name |-> speaker_name,
                                   words |-> file.current_text])
                   ELSE @,
               !.final_transcript = Some(strip(concat(parts))),
               !.pc = "returned"]
    /\ UNCHANGED job

FileNext == F_NamesGiven \/ F_KeyError \/ F_Prompt \/ F_Segment \/ F_Return

\* ------------------------------------------- the runs
Counts == {None} \cup {Some(n) : n \in 0..MaxCount}

\* by-jobname alone, names given: every segment list over WideSegments
InitJobWide ==
    /\ \E segments \in SeqsUpTo(WideSegments, MaxSegs), names \in GivenNames :
        job = JobStart(TranscriptData(None, segments, ExampleItems), Some(names))
    /\ file = FileIdle

\* by-jobname alone, one segment: every window over every short item stream
InitJobItems ==
    /\ \E items \in SeqsUpTo(ItemPool, MaxItems), w \in Windows :
        job = JobStart(TranscriptData(None, <<Segment(SegKeys, spk(0), w[1], w[2])>>, items),
                       Some(NoNames))
    /\ file = FileIdle

\* by-jobname alone, names prompted for: with and without speakers_count
InitJobPrompt ==
    /\ \E labels \in SeqsUpTo(Labels, MaxSegs), count \in Counts :
        job = JobStart(
                TranscriptData(count,
                    [k \in 1..Len(labels) |-> Segment(SegKeys, labels[k], t00, t20)],
                    ExampleItems),
                None)
    /\ file = FileIdle

\* from-file alone, names given: every segment list over WideAudioSegments
InitFileWide ==
    /\ job = JobIdle
    /\ \E segments \in SeqsUpTo(WideAudioSegments, MaxSegs), names \in GivenNames :
        file = FileStart(Data(None, segments), Some(names))

\* from-file alone, names prompted for: with and without speakers
InitFilePrompt ==
    /\ job = JobIdle
    /\ \E labels \in SeqsUpTo(Labels, MaxSegs), count \in Counts :
        file = FileStart(
                Data(count, [k \in 1..Len(labels) |-> AudioSegment(labels[k], hi)]),
                None)

\* the audio_segments that carry what the matcher finds for each segment
Corresponding(td) ==
    [k \in 1..Len(td.segments) |->
        AudioSegment(td.segments[k].speaker_label,
            join(<<" ">>, SegmentItems(td.items, float(td.segments[k].start_time),
                                       float(td.segments[k].end_time))))]

PairSegments == {s \in WideSegments : s.keys = SegKeys}

\* both scripts, on payloads that carry the same conversation
InitPair ==
    \E segments \in SeqsUpTo(PairSegments, MaxSegs), names \in GivenNames :
        LET td == TranscriptData(None, segments, ExampleItems)
        IN  /\ job = JobStart(td, Some(names))
            /\ file = FileStart(Data(None, Corresponding(td)), Some(names))

Init ==
    \/ InitJobWide
    \/ InitJobItems
    \/ InitJobPrompt
    \/ InitFileWide
    \/ InitFilePrompt
    \/ InitPair

Next == JobNext \/ FileNext

Spec == Init /\ [][Next]_vars

\* =================================================================== claims
Returned(p) == p.pc = "returned"

\* what each pass of the loop contributed: the speaker and the fragments
JobEntries ==
    [k \in 1..Len(job.matched) |->
        [speaker |-> job.transcript_data.segments[job.matched[k].segment].speaker_label,
         words |-> job.matched[k].segment_items]]

FileEntries ==
    [k \in 1..file.segment |->
        [speaker |-> file.data.audio_segments[k].speaker_label,
         words |-> <<file.data.audio_segments[k].transcript>>]]

\* the maximal same-speaker runs of e that accumulate at least one fragment
NonEmptyRuns(e) ==
    Cardinality({k \in 1..Len(e) :
        /\ k = 1 \/ e[k - 1].speaker # e[k].speaker
        /\ \E j \in k..Len(e) :
            /\ \A m \in k..j : e[m].speaker = e[k].speaker
            /\ e[j].words # <<>>})

\* C1: in both pipelines the number of turns emitted equals the number of
\* maximal contiguous same-speaker runs with non-empty accumulated text.
TurnCountInvariant ==
    /\ Returned(job) => Len(job.turns) = NonEmptyRuns(JobEntries)
    /\ Returned(file) => Len(file.turns) = NonEmptyRuns(FileEntries)

\* the display name of a label: the map's entry, the raw label without one
NameOf(names, label) == IF label \in DOMAIN names THEN names[label] ELSE label

\* the turns as "<Name>: <words joined by single spaces>", sep between them
RECURSIVE Rendered(_, _, _)
Rendered(turns, names, sep) ==
    IF turns = <<>> THEN <<>>
    ELSE LET line == NameOf(names, turns[1].speaker) \o <<":", " ">>
                        \o join(<<" ">>, turns[1].words)
         IN  IF Len(turns) = 1 THEN line
             ELSE line \o sep \o Rendered(Tail(turns), names, sep)

\* text is full without the whitespace at its two ends
StrippedOf(text, full) ==
    /\ text = <<>> \/ (text[1] \notin Whitespace /\ text[Len(text)] \notin Whitespace)
    /\ \E a \in 0..Len(full) :
        /\ a + Len(text) <= Len(full)
        /\ SubSeq(full, a + 1, a + Len(text)) = text
        /\ \A k \in 1..Len(full) :
            (k <= a \/ k > a + Len(text)) => full[k] \in Whitespace

ExampleAudio ==
    <<AudioSegment(spk(0), hello), AudioSegment(spk(1), hi), AudioSegment(spk(0), bye)>>

IsExampleRun ==
    /\ Returned(file)
    /\ file.data.audio_segments = ExampleAudio
    /\ file.speaker_names = Some(AliceBob)

OutputFormat(sep) ==
    /\ Returned(job) =>
        StrippedOf(job.final_transcript[1], Rendered(job.turns, job.speaker_names[1], sep))
    /\ Returned(file) =>
        StrippedOf(file.final_transcript[1], Rendered(file.turns, file.speaker_names[1], sep))
    /\ IsExampleRun =>
        file.final_transcript[1] =
            Alice \o <<":", " ">> \o hello \o sep \o Bob \o <<":", " ">> \o hi
                \o sep \o Alice \o <<":", " ">> \o bye

\* C2 as stated: the final text is the turns rendered "<Name>: <words>" with one
\* blank line between consecutive turns and no whitespace at its ends; the
\* example gives "Alice: hello\n\nBob: hi\n\nAlice: bye".
OutputFormatBlankLine == OutputFormat(<<"\n", "\n">>)

\* C2 as amended: the final text is the turns rendered "<Name>: <words>" with
\* exactly one newline between consecutive turns and no whitespace at its ends;
\* the example gives "Alice: hello\nBob: hi\nAlice: bye", Alice as two turns.
OutputFormatNewline ==
    /\ OutputFormat(<<"\n">>)
    /\ IsExampleRun =>
        /\ Len(file.turns) = 3
        /\ file.turns[1].speaker = spk(0) /\ file.turns[3].speaker = spk(0)

OutputFormatWitness ==
    /\ IsExampleRun
    /\ file.final_transcript[1] =
        <<"A", "l", "i", "c", "e", ":", " ", "h", "e", "l", "l", "o", "\n",
          "B", "o", "b", ":", " ", "h", "i", "\n",
          "A", "l", "i", "c", "e", ":", " ", "b", "y", "e">>

\* the items of the stream that lie inside the segment's window
Inside(items, seg) ==
    {i \in 1..Len(items) :
        /\ {"start_time", "end_time"} \subseteq items[i].keys
        /\ float(items[i].start_time) >= float(seg.start_time)
        /\ float(items[i].end_time) <= float(seg.end_time)}

\* the first candidates of the items of T, in stream order
FirstCandidates(items, T) ==
    LET nth(j) == CHOOSE i \in T : Cardinality({m \in T : m < i}) = j - 1
    IN  [j \in 1..Cardinality(T) |-> items[nth(j)].alternatives[1].content]

Overlaps(item, seg) ==
    /\ {"start_time", "end_time"} \subseteq item.keys
    /\ float(item.start_time) < float(seg.end_time)
    /\ float(item.end_time) > float(seg.start_time)

\* C3: the fragments attributed to a segment are exactly the first candidates of
\* the timed items with itemStart >= segmentStart and itemEnd <= segmentEnd, in
\* item-stream order.
IntervalMatcherRule ==
    \A k \in 1..Len(job.matched) :
        LET seg == job.transcript_data.segments[job.matched[k].segment]
            items == job.transcript_data.items
        IN  job.matched[k].segment_items = FirstCandidates(items, Inside(items, seg))

\* a segment matched against a stream with an item inside its window that has a
\* second candidate, and an item that only partially overlaps the window
IntervalMatcherWitness ==
    \E k \in 1..Len(job.matched) :
        LET seg == job.transcript_data.segments[job.matched[k].segment]
            items == job.transcript_data.items
        IN  /\ \E i \in Inside(items, seg) : Len(items[i].alternatives) > 1
            /\ \E i \in 1..Len(items) :
                 i \notin Inside(items, seg) /\ Overlaps(items[i], seg)
            /\ job.matched[k].segment_items # <<>>

IsExampleMatch(k) ==
    LET seg == job.transcript_data.segments[job.matched[k].segment]
    IN  /\ job.transcript_data.items = ExampleItems
        /\ seg.start_time = t00
        /\ seg.end_time = t20

\* C4 as stated: for the items with windows [0.0,1.0], [1.0,2.0], [0.5,1.5] and
\* the segment window [0.0,2.0] the matcher returns items 1 and 2 and not item 3.
ContainmentExample ==
    \A k \in 1..Len(job.matched) :
        IsExampleMatch(k) =>
            job.matched[k].segment_items =
                <<ExampleItems[1].alternatives[1].content,
                  ExampleItems[2].alternatives[1].content>>

\* C4 as amended: for those items and the segment window [0.0,2.0] the matcher
\* returns all three items in stream order, item 3 lying inside the window.
ContainmentExampleAll ==
    \A k \in 1..Len(job.matched) :
        IsExampleMatch(k) =>
            job.matched[k].segment_items =
                [i \in 1..3 |-> ExampleItems[i].alternatives[1].content]

ContainmentExampleWitness ==
    \E k \in 1..Len(job.matched) :
        IsExampleMatch(k) /\ job.matched[k].segment_items = <<hello, hi, bye>>

\* C5: every turn emitted has at least one accumulated word.
NoBlankTurns ==
    /\ \A k \in 1..Len(job.turns) : job.turns[k].words # <<>>
    /\ \A k \in 1..Len(file.turns) : file.turns[k].words # <<>>

\* C6: a segment or an item without its timestamps is skipped, and
\* process_transcript does not end in an error.
MissingTimestampsSkipped == job.pc # "raised"

\* the name the claim expects: the entry if there is a non-empty one
FallbackName(names, label) ==
    IF label \in DOMAIN names /\ names[label] # EmptyStr THEN names[label] ELSE label

\* C7: a turn is rendered under the map's display name when its label has a
\* non-empty entry and under the raw label otherwise.
LabelFallback ==
    /\ \A k \in 1..Len(job.turns) :
        job.turns[k].speaker_name = FallbackName(job.speaker_names[1], job.turns[k].speaker)
    /\ \A k \in 1..Len(file.turns) :
        file.turns[k].speaker_name =
            FallbackName(file.speaker_names[1], file.turns[k].speaker)

Resolved(count, segments) ==
    IF count # None THEN count[1] ELSE Cardinality(SpeakerLabels(segments))

\* C8: in either pipeline the count is the explicit count when the payload has
\* one and the number of distinct speaker labels otherwise, without raising.
SpeakerCountResolution ==
    /\ job.pc \notin {"idle", "start"} =>
        job.num_speakers =
            Some(Resolved(job.transcript_data.speakers_count, job.transcript_data.segments))
    /\ file.num_speakers # None \/ file.exc # None =>
        file.num_speakers = Some(Resolved(file.data.speakers, file.data.audio_segments))

\* C9: on a Schema A payload and the Schema B payload that carries its matched
\* words, with the same name map, both pipelines return the same text.
PipelineEquivalence ==
    (/\ Returned(job)
     /\ Returned(file)
     /\ job.speaker_names = file.speaker_names
     /\ file.data.audio_segments = Corresponding(job.transcript_data))
        => job.final_transcript = file.final_transcript

\* the (speaker, fragment) pairs of the turns, in output order
RECURSIVE Flat(_)
Flat(turns) ==
    IF turns = <<>> THEN <<>>
    ELSE Fragments(turns[1].speaker, turns[1].words) \o Flat(Tail(turns))

NoLoss(p) ==
    /\ Returned(p) => Flat(p.turns) = p.appended
    /\ \A k \in 1..(Len(p.turns) - 1) : p.turns[k].speaker # p.turns[k + 1].speaker

IsMergeRun ==
    /\ Returned(file)
    /\ file.data.audio_segments = <<AudioSegment(spk(0), hi), AudioSegment(spk(0), there)>>

\* C10: consecutive same-speaker segments merge into one turn, and the words of
\* the turns in output order are exactly the fragments appended, each under its
\* own speaker; [(spk_0,"hi"),(spk_0,"there")] yields one turn ["hi","there"].
MergeWithoutLoss ==
    /\ NoLoss(job)
    /\ NoLoss(file)
    /\ IsMergeRun => Len(file.turns) = 1 /\ file.turns[1].words = <<hi, there>>

MergeWitness ==
    /\ IsMergeRun
    /\ file.turns = <<[speaker |-> spk(0), speaker_name |-> Alice, words |-> <<hi, there>>]>>

====
